---- MODULE Spec2Model ----
(***************************************************************************)
(* Assets, AssetVersions, Containers and the Store of vk_cg_pipeline.      *)
(*                                                                         *)
(* Python values are encoded uniformly:                                    *)
(*   - a value that may be None is None or Some(v);                        *)
(*   - a call either returns, Return(v), or raises, Raise("Exception");    *)
(*   - a dict read only through .get is a record / function whose missing  *)
(*     keys read as the .get default;                                      *)
(*   - every object carries a "type" field naming its Python class, which  *)
(*     is what isinstance() reads.                                         *)
(***************************************************************************)
EXTENDS Integers, Sequences, FiniteSets, TLC

VARIABLES
    store,      \* Store._data: slot id -> entry (None when the key is missing)
    assets,     \* the caller's Asset objects: handle -> None | Some(Asset)
    container,  \* a Container object the caller holds
    named,      \* an object the caller asks a name of (None when there is none)
    threads,    \* the threads inside dependencies(): thread -> its position
    stack,      \* the activations of dependencies() of one caller, innermost last
    result      \* the last operation the caller ran, and its outcome

vars == <<store, assets, container, named, threads, stack, result>>

-----------------------------------------------------------------------------
(* Bounds                                                                  *)

\* Store version keys are drawn from 1..MaxVersion.
MaxVersion == 2
\* add_version is called while an Asset holds fewer than MaxLen versions.
MaxLen == 3
\* A Store payload records at most MaxDeps dependency pairs.
MaxDeps == 2
\* A caller passes set_contents lists of at most MaxContents items.
MaxContents == 2
\* A slot path has at most MaxComponents components.
MaxComponents == 3
\* A name rule config holds at most MaxRules rules.
MaxRules == 2
\* dependencies() is entered while fewer than MaxDepth activations of it are open.
MaxDepth == 3

-----------------------------------------------------------------------------
(* Python values                                                           *)

None == [some |-> FALSE]
Some(v) == [some |-> TRUE, val |-> v]

Return(v) == [raised |-> FALSE, val |-> v]
Raise(e) == [raised |-> TRUE, exc |-> e]

\* str(x) of a value that is a string or None.
str(x) == IF x.some THEN x.val ELSE "None"

\* A JSON object key holding a version number: its decimal digits.
RECURSIVE digits(_)
digits(n) == IF n < 10 THEN <<n>> ELSE Append(digits(n \div 10), n % 10)

\* int(key) of a digit string.
RECURSIVE int(_)
int(key) ==
    IF key = <<>> THEN 0
    ELSE 10 * int(SubSeq(key, 1, Len(key) - 1)) + key[Len(key)]

\* The order in which CPython 2 iterates a dict of small int keys: an int
\* hashes to itself and the table is larger than every key the model uses,
\* so the keys come out in ascending order.
RECURSIVE iter(_)
iter(keys) ==
    IF keys = {} THEN <<>>
    ELSE LET k == CHOOSE x \in keys : \A y \in keys : x <= y
         IN <<k>> \o iter(keys \ {k})

Range(s) == {s[i] : i \in DOMAIN s}

-----------------------------------------------------------------------------
(* constants.CONTENT_TYPE                                                  *)

File == "File"
AssetType == "Asset"
CONTENT_TYPE == {File, AssetType}

-----------------------------------------------------------------------------
(* slot.Slot                                                               *)

Slot(type, path) == [type |-> "Slot", slot_id |-> path, kind |-> type]

-----------------------------------------------------------------------------
(* database.store.Store                                                    *)

get_entries(slot) == store[slot]

get_type_data(slot) ==
    LET slot_data == get_entries(slot)
    IN IF slot_data.some THEN slot_data.val.type ELSE None

get_versions_data(slot) ==
    LET slot_data == get_entries(slot)
    IN IF slot_data.some
       THEN LET versions_data == slot_data.val.versions
            IN IF versions_data.some
               THEN Some([n \in {int(key) : key \in DOMAIN versions_data.val} |->
                            versions_data.val[CHOOSE key \in DOMAIN versions_data.val :
                                                  int(key) = n]])
               ELSE None
       ELSE None

get_version_data(slot, version) ==
    LET versions_data == get_versions_data(slot)
    IN IF versions_data.some
       THEN IF version \in DOMAIN versions_data.val
            THEN versions_data.val[version]
            ELSE None
       ELSE None

get_dependency_data(slot, version) ==
    LET version_data == get_version_data(slot, version)
    IN IF version_data.some THEN version_data.val.dependencies ELSE <<>>

get_content_data(slot, version) ==
    LET version_data == get_version_data(slot, version)
    IN IF version_data.some THEN version_data.val.contents ELSE <<>>

-----------------------------------------------------------------------------
(* Content items                                                           *)

\* A str (or unicode) value; the model writes a file path as <<directory, n>>.
Str(s) == [type |-> "str", s |-> s]
\* A value that is neither a string nor an AssetVersion.
Num(n) == [type |-> "int", n |-> n]

isinstance(x, class) == x.type = class

-----------------------------------------------------------------------------
(* core.assets.container.Container, asset.FileContainer, asset.AssetContainer *)

Container(type_) == [type |-> type_, contents |-> <<>>]

\* container_factory returns None (falls off the end) for any other type.
container_factory(type_) ==
    IF type_ = File THEN Some(Container(File))
    ELSE IF type_ = AssetType THEN Some(Container(AssetType))
    ELSE None

FileContainer_is_valid(content) == isinstance(content, "str")

AssetContainer_is_valid(content) == isinstance(content, "AssetVersion")

_is_valid(self, content) ==
    IF self.type = File THEN FileContainer_is_valid(content)
    ELSE AssetContainer_is_valid(content)

\* content if content in self._contents else None
FileContainer_find_content(self, content) ==
    IF content \in Range(self.contents) THEN Some(content) ELSE None

\* filter(filter_func, self.contents()): a list, also when nothing matches.
AssetContainer_find_content(self, content) ==
    Some(SelectSeq(self.contents,
                   LAMBDA x : /\ x.asset.slot.slot_id = content.asset.slot.slot_id
                              /\ x.version = content.version))

_find_content(self, content) ==
    IF self.type = File THEN FileContainer_find_content(self, content)
    ELSE AssetContainer_find_content(self, content)

\* self._find_content(content) is not None
_exists(self, content) == _find_content(self, content).some

\* Mutant of set_contents: keeps the valid items of a list that has invalid ones.
set_contents_keep_valid(self, contents) ==
    [self EXCEPT !.contents = SelectSeq(contents, LAMBDA x : _is_valid(self, x))]

set_contents(self, contents) ==
    IF Len(SelectSeq(contents, LAMBDA x : _is_valid(self, x))) = Len(contents)
    THEN [self EXCEPT !.contents = contents]
    ELSE self

\* Mutant of add_content: appends a valid item without looking for it first.
add_content_unchecked(self, content) ==
    IF _is_valid(self, content)
    THEN [self EXCEPT !.contents = Append(self.contents, content)]
    ELSE self

add_content(self, content) ==
    IF _is_valid(self, content) /\ ~_exists(self, content)
    THEN [self EXCEPT !.contents = Append(self.contents, content)]
    ELSE self

\* el == content between two content items: an AssetVersion on either side
\* answers with AssetVersion.__eq__, which raises TypeError for anything
\* that is no AssetVersion.
item_equals(el, content) ==
    IF isinstance(el, "AssetVersion") \/ isinstance(content, "AssetVersion")
    THEN IF isinstance(el, "AssetVersion") /\ isinstance(content, "AssetVersion")
         THEN Return(/\ el.asset.slot.slot_id = content.asset.slot.slot_id
                     /\ el.version = content.version)
         ELSE Raise("TypeError")
    ELSE Return(el = content)

\* n == content for the int n = len(...): an AssetVersion raises TypeError,
\* an int compares by value, a str is never equal to an int.
len_equals(n, content) ==
    IF isinstance(content, "AssetVersion") THEN Raise("TypeError")
    ELSE IF isinstance(content, "int") THEN Return(n = content.n)
    ELSE Return(FALSE)

\* len(self._find_content(content)) == content in a FileContainer:
\* `content in self._contents` compares content with the entries, and len()
\* of the None that stands for "not found" raises TypeError.
FileContainer_remove_test(self, content) ==
    IF isinstance(content, "AssetVersion") /\ self.contents # <<>>
    THEN Raise("TypeError")
    ELSE IF ~FileContainer_find_content(self, content).some THEN Raise("TypeError")
    ELSE len_equals(Len(FileContainer_find_content(self, content).val.s), content)

\* The same test in an AssetContainer: filter_func calls content.slot() on
\* the first entry, which anything but an AssetVersion lacks.
AssetContainer_remove_test(self, content) ==
    IF ~isinstance(content, "AssetVersion")
    THEN IF self.contents # <<>> THEN Raise("AttributeError")
         ELSE len_equals(0, content)
    ELSE len_equals(Len(AssetContainer_find_content(self, content).val), content)

\* self._contents.remove(content) from the k-th entry on: the first entry
\* equal to content goes, ValueError when there is none.
RECURSIVE list_remove(_, _, _)
list_remove_step(self, content, k, same) ==
    IF same.raised THEN same
    ELSE IF same.val
    THEN Return([self EXCEPT !.contents =
                    SubSeq(@, 1, k - 1) \o SubSeq(@, k + 1, Len(@))])
    ELSE list_remove(self, content, k + 1)

list_remove(self, content, k) ==
    IF k > Len(self.contents) THEN Raise("ValueError")
    ELSE list_remove_step(self, content, k, item_equals(self.contents[k], content))

removed(self, content, test) ==
    IF test.raised THEN test
    ELSE IF test.val THEN list_remove(self, content, 1)
    ELSE Return(self)

\* Container.remove_content: if len(self._find_content(content)) == content
remove_content(self, content) ==
    removed(self, content,
            IF self.type = File THEN FileContainer_remove_test(self, content)
            ELSE AssetContainer_remove_test(self, content))

RECURSIVE add_each(_, _)
add_each(self, items) ==
    IF items = <<>> THEN self
    ELSE add_each(add_content(self, Head(items)), Tail(items))

FileContainer_load_contents(self, slot, version) ==
    set_contents(self, get_content_data(slot, version))

AssetContainer_load_contents(self, slot, version) ==
    add_each(self, get_content_data(slot, version))

load_contents(self, slot, version) ==
    IF self.type = File THEN FileContainer_load_contents(self, slot, version)
    ELSE AssetContainer_load_contents(self, slot, version)

-----------------------------------------------------------------------------
(* asset.AssetVersion                                                      *)

\* self._asset.slot(): the id of the owning Asset's Slot.
slot(self) == self.asset.slot.slot_id

\* self._asset.slot_type(): str(self._slot.type())
slot_type(self) == str(self.asset.slot.kind)

contents(self) ==
    IF self.container.some THEN Some(self.container.val.contents) ELSE None

_is_new_version(self) == ~get_version_data(slot(self), self.version).some

\* Mutant of _initialize_container: a new version is made without contents.
_initialize_container_unchecked(self, contents_) ==
    IF ~container_factory(slot_type(self)).some THEN Raise("AttributeError")
    ELSE IF _is_new_version(self)
    THEN Return([self EXCEPT !.container =
                    Some(set_contents(container_factory(slot_type(self)).val,
                                      IF contents_.some THEN contents_.val ELSE <<>>))])
    ELSE Return([self EXCEPT !.container =
                    Some(load_contents(container_factory(slot_type(self)).val,
                                       slot(self), self.version))])

\* `contents` is None or Some(list); `not contents` holds for both None and [].
\* A None container (no class for the slot type) fails the method call on it.
_initialize_container(self, contents_) ==
    LET container_ == container_factory(slot_type(self))
    IN IF _is_new_version(self)
       THEN IF ~contents_.some \/ contents_.val = <<>>
            THEN Raise("AssetVersionInitializationException")
            ELSE IF ~container_.some THEN Raise("AttributeError")
            ELSE Return([self EXCEPT !.container =
                            Some(set_contents(container_.val, contents_.val))])
       ELSE IF ~container_.some THEN Raise("AttributeError")
            ELSE Return([self EXCEPT !.container =
                            Some(load_contents(container_.val, slot(self), self.version))])

\* AssetVersion.__init__: `asset` is the owning Asset, kept by reference; the
\* model keeps what never changes of it, its identity and its Slot.
AssetVersion(asset, version, contents_) ==
    _initialize_container(
        [type |-> "AssetVersion",
         asset |-> [id |-> asset.id, slot |-> asset.slot],
         version |-> version,
         dependencies |-> <<>>,
         dependencies_loaded |-> FALSE,
         container |-> None],
        contents_)

\* Mutant of AssetVersion_eq: the two must be the same object.
AssetVersion_eq_same_object(self, other) ==
    IF isinstance(other, "AssetVersion")
    THEN Return(self = other)
    ELSE Raise("TypeError")

\* AssetVersion.__eq__
AssetVersion_eq(self, other) ==
    IF isinstance(other, "AssetVersion")
    THEN Return(slot(self) = slot(other) /\ self.version = other.version)
    ELSE Raise("TypeError")

-----------------------------------------------------------------------------
(* asset.Asset                                                             *)

latest_version(self) == self.latest_version

versions(self) == self.versions

\* filter(lambda x: int(x.version()) == version, self._versions), first or None
version(self, n) ==
    LET filtered_versions == SelectSeq(self.versions, LAMBDA x : x.version = n)
    IN IF Len(filtered_versions) = 0 THEN None ELSE Some(filtered_versions[1])

\* The loop of _load_versions over the version numbers in iteration order:
\* load_loop takes the next number, load_step appends the AssetVersion made
\* for it, or lets its exception through.
RECURSIVE load_loop(_, _)
RECURSIVE load_step(_, _, _)
load_step(self, order, made) ==
    IF made.raised THEN made
    ELSE load_loop([self EXCEPT !.versions = Append(self.versions, made.val)],
                   Tail(order))

load_loop(self, order) ==
    IF order = <<>> THEN Return(self)
    ELSE load_step(self, order, AssetVersion(self, Head(order), None))

\* Mutant of set_latest_version: reads the first version, not the last.
set_latest_version_first(loaded) ==
    IF loaded.raised THEN loaded
    ELSE Return([loaded.val EXCEPT !.latest_version =
                    IF Len(loaded.val.versions) = 0 THEN 0
                    ELSE loaded.val.versions[1].version])

\* The end of _load_versions: latest_version from the last version loaded.
set_latest_version(loaded) ==
    IF loaded.raised THEN loaded
    ELSE Return([loaded.val EXCEPT !.latest_version =
                    IF Len(loaded.val.versions) = 0 THEN 0
                    ELSE loaded.val.versions[Len(loaded.val.versions)].version])

\* Mutant of _load_versions: the kind the Store reports is not compared.
_load_versions_unchecked(self) ==
    IF ~get_entries(self.slot.slot_id).some THEN Return(self)
    ELSE IF ~get_versions_data(self.slot.slot_id).some THEN Raise("TypeError")
    ELSE set_latest_version(
            load_loop(self, iter(DOMAIN get_versions_data(self.slot.slot_id).val)))

\* Mutant of _load_versions: a slot without an entry is an error.
_load_versions_entry_required(self) ==
    IF ~get_entries(self.slot.slot_id).some THEN Raise("MissingDBDataException")
    ELSE IF \/ ~get_type_data(self.slot.slot_id).some
            \/ get_type_data(self.slot.slot_id).val # str(self.slot.kind)
    THEN Raise("DataMismatchException")
    ELSE IF ~get_versions_data(self.slot.slot_id).some THEN Raise("TypeError")
    ELSE set_latest_version(
            load_loop(self, iter(DOMAIN get_versions_data(self.slot.slot_id).val)))

\* `for version in None` raises TypeError when the entry has no "versions".
_load_versions(self) ==
    IF ~get_entries(self.slot.slot_id).some THEN Return(self)
    ELSE IF \/ ~get_type_data(self.slot.slot_id).some
            \/ get_type_data(self.slot.slot_id).val # str(self.slot.kind)
    THEN Raise("DataMismatchException")
    ELSE IF ~get_versions_data(self.slot.slot_id).some THEN Raise("TypeError")
    ELSE set_latest_version(
            load_loop(self, iter(DOMAIN get_versions_data(self.slot.slot_id).val)))

\* Asset.__init__: `id` is the identity of the new object.
Asset(id, slot_) ==
    _load_versions([type |-> "Asset", id |-> id, slot |-> slot_,
                    versions |-> <<>>, latest_version |-> 0])

\* Mutant of append_version: latest_version is not incremented.
append_version_no_increment(self, made) ==
    IF made.raised THEN made
    ELSE Return([self EXCEPT !.versions = Append(self.versions, made.val)])

\* The append and the increment of add_version, once the AssetVersion is made.
append_version(self, made) ==
    IF made.raised THEN made
    ELSE Return([self EXCEPT !.versions = Append(self.versions, made.val),
                             !.latest_version = self.latest_version + 1])

add_version(self, contents_) ==
    append_version(self, AssetVersion(self, self.latest_version + 1, contents_))

-----------------------------------------------------------------------------
(* asset.AssetVersion: dependencies                                        *)

\* The loop of _load_dependencies from the k-th recorded pair on. Each pair
\* builds a fresh Asset object (identified by who built it and for which
\* pair) and appends its versions of the recorded number. An exception leaves
\* what was appended so far in place. store_calls counts the Store calls the
\* loop itself makes (get_type_data, once per pair taken); the Assets it
\* builds make more.
RECURSIVE load_dependencies_loop(_, _, _)
RECURSIVE load_dependencies_step(_, _, _, _)
load_dependencies_step(self, data, k, asset_) ==
    IF asset_.raised THEN [self |-> self, exc |-> asset_.exc, store_calls |-> k]
    ELSE load_dependencies_loop(
            [self EXCEPT !.dependencies =
                @ \o SelectSeq(asset_.val.versions,
                               LAMBDA asset_version : asset_version.version = data[k][2])],
            data, k + 1)

load_dependencies_loop(self, data, k) ==
    IF k > Len(data) THEN [self |-> self, exc |-> "", store_calls |-> k - 1]
    ELSE load_dependencies_step(
            self, data, k,
            Asset(self.asset.id \o <<self.version, k>>,
                  Slot(get_type_data(data[k][1]), data[k][1])))

_load_dependencies(self) ==
    load_dependencies_loop(self, get_dependency_data(slot(self), self.version), 1)

\* Mutant of set_dependencies_loaded: the flag is left as it was.
set_dependencies_loaded_unset(loaded) ==
    [self |-> loaded.self,
     ret |-> IF loaded.exc # "" THEN Raise(loaded.exc)
             ELSE Return(loaded.self.dependencies),
     store_calls |-> 1 + loaded.store_calls]

\* The end of dependencies() on its first call: the flag is set only when
\* _load_dependencies returned. One more Store call: get_dependency_data.
set_dependencies_loaded(loaded) ==
    IF loaded.exc # ""
    THEN [self |-> loaded.self, ret |-> Raise(loaded.exc),
          store_calls |-> 1 + loaded.store_calls]
    ELSE [self |-> [loaded.self EXCEPT !.dependencies_loaded = TRUE],
          ret |-> Return(loaded.self.dependencies),
          store_calls |-> 1 + loaded.store_calls]

\* Mutant of dependencies: resolves on every call, whatever the flag.
dependencies_always_load(self) ==
    set_dependencies_loaded(_load_dependencies(self))

\* dependencies(): the object afterwards, what the call returned or raised,
\* and the Store calls it and _load_dependencies made.
dependencies(self) ==
    IF ~self.dependencies_loaded
    THEN set_dependencies_loaded(_load_dependencies(self))
    ELSE [self |-> self, ret |-> Return(self.dependencies), store_calls |-> 0]

\* dep == asset_version: AssetVersion.__eq__ of the left operand; when the
\* left one is no AssetVersion, Python falls back on the __eq__ of the right.
equals(dep, other) ==
    IF isinstance(dep, "AssetVersion") THEN AssetVersion_eq(dep, other)
    ELSE IF isinstance(other, "AssetVersion") THEN AssetVersion_eq(other, dep)
    ELSE Return(dep = other)

\* The loop of add_dependency from the k-th entry on, then the append.
RECURSIVE add_dependency_loop(_, _, _)
add_dependency_step(self, asset_version, k, same) ==
    IF same.raised THEN same
    ELSE IF same.val THEN Return(self)
    ELSE add_dependency_loop(self, asset_version, k + 1)

add_dependency_loop(self, asset_version, k) ==
    IF k > Len(self.dependencies)
    THEN Return([self EXCEPT !.dependencies = Append(@, asset_version)])
    ELSE add_dependency_step(self, asset_version, k,
                             equals(self.dependencies[k], asset_version))

\* Mutant of add_dependency: appends without looking at the entries.
add_dependency_unchecked(self, asset_version) ==
    Return([self EXCEPT !.dependencies = Append(@, asset_version)])

add_dependency(self, asset_version) == add_dependency_loop(self, asset_version, 1)

-----------------------------------------------------------------------------
(* Stores                                                                  *)

SlotIds == {"A", "B"}
Handles == {1, 2}

VersionKeys == {digits(n) : n \in 1..MaxVersion}

\* A payload; a missing "contents" or "dependencies" key reads as [].
Payload(contents_, dependencies_) ==
    Some([contents |-> contents_, dependencies |-> dependencies_])

\* The dicts a Store serves as a slot's "versions": key -> payload, over the
\* payloads P (None is a JSON null).
VersionDicts(P) == UNION {[K -> P] : K \in SUBSET VersionKeys}

Entries(P) ==
    [type : {None, Some(File), Some(AssetType)},
     versions : {None} \cup {Some(d) : d \in VersionDicts(P)}]

HistoryPayloads == {None, Payload(<<Str(<<"f", 1>>)>>, <<>>)}

\* Stores in which slot "A" has any entry or none and slot "B" has none.
HistoryStores ==
    {[s \in SlotIds |-> IF s = "A" THEN e ELSE None] :
        e \in {None} \cup {Some(x) : x \in Entries(HistoryPayloads)}}

\* An AssetVersion of some other Asset, for Composite contents.
OtherVersion ==
    [type |-> "AssetVersion",
     asset |-> [id |-> <<0>>, slot |-> Slot(Some(File), "B")],
     version |-> 1,
     dependencies |-> <<>>,
     dependencies_loaded |-> FALSE,
     container |-> Some([type |-> File, contents |-> <<Str(<<"f", 1>>)>>])]

\* The contents a Store declares for version n of a slot of a kind: two
\* files for a Leaf slot, an AssetVersion for a Composite slot.
Declared(path, kind, n) ==
    IF kind = File THEN <<Str(<<path, n>>), Str(<<path, 0>>)>>
    ELSE <<OtherVersion>>

\* The sequences over S of length at most n.
SeqsUpTo(S, n) == UNION {[1..k -> S] : k \in 0..n}

\* Recorded dependency pairs: [slot, version].
DepPairs == {<<s, n>> : s \in SlotIds, n \in 1..MaxVersion}
DepLists == SeqsUpTo(DepPairs, MaxDeps)

\* An entry of a kind holding versions 1..top; version 1 records `deps`.
DepEntry(path, kind, top, deps) ==
    Some([type |-> Some(kind),
          versions |-> Some([key \in {digits(n) : n \in 1..top} |->
                                Payload(Declared(path, kind, int(key)),
                                        IF int(key) = 1 THEN deps ELSE <<>>)])])

\* Stores for dependency resolution: slot "A" is a Leaf slot with versions
\* 1..MaxVersion whose version 1 records any list of pairs; slot "B" has no
\* entry, an entry without a type, or an entry of either kind with versions
\* 1..top, whose version 1 may depend back on version 1 of "A".
DepStores ==
    {[s \in SlotIds |-> IF s = "A" THEN DepEntry("A", File, MaxVersion, d) ELSE e] :
        d \in DepLists,
        e \in {None, Some([type |-> None, versions |-> Some(<<>>)])}
              \cup {DepEntry("B", kind, top, back) :
                        kind \in CONTENT_TYPE, top \in 1..MaxVersion,
                        back \in {<<>>, <<<<"A", 1>>>>}}}

-----------------------------------------------------------------------------
(* The caller                                                              *)

\* What a caller passes to add_version.
NewContents ==
    {None, Some(<<>>), Some(<<Str(<<"f", 1>>), Str(<<"f", 2>>)>>),
     Some(<<OtherVersion>>), Some(<<Str(<<"f", 1>>), OtherVersion>>)}

NoAssets == [h \in Handles |-> None]

Init ==
    /\ store \in HistoryStores
    /\ assets = NoAssets
    /\ container = Container(File)
    /\ named = None
    /\ threads = <<>>
    /\ stack = <<>>
    /\ result = [op |-> "init"]

\* The caller keeps the object a constructor or method returned, and sees
\* the exception of one that raised.
Loaded(h, path, kind, made) ==
    /\ assets' = IF made.raised THEN assets
                 ELSE [assets EXCEPT ![h] = Some(made.val)]
    /\ result' = [op |-> "load", h |-> h, path |-> path, kind |-> kind,
                  exc |-> IF made.raised THEN made.exc ELSE ""]

\* asset.Asset(slot.Slot(path=path, type=kind))
Load(h, path, kind) ==
    /\ ~assets[h].some
    /\ Loaded(h, path, kind, Asset(<<h>>, Slot(Some(kind), path)))
    /\ UNCHANGED <<store, container, named, threads, stack>>

Added(h, c, made) ==
    /\ assets' = IF made.raised THEN assets
                 ELSE [assets EXCEPT ![h] = Some(made.val)]
    /\ result' = [op |-> "add_version", h |-> h, contents |-> c,
                  exc |-> IF made.raised THEN made.exc ELSE ""]

\* asset_.add_version(c)
AddVersion(h, c) ==
    /\ assets[h].some
    /\ Len(assets[h].val.versions) < MaxLen
    /\ Added(h, c, add_version(assets[h].val, c))
    /\ UNCHANGED <<store, container, named, threads, stack>>

Resolved(h, i, called) ==
    /\ assets' = [assets EXCEPT ![h] = Some([@.val EXCEPT !.versions[i] = called.self])]
    /\ result' = [op |-> "dependencies", h |-> h, i |-> i, ret |-> called.ret,
                  store_calls |-> called.store_calls]

\* asset_.versions()[i - 1].dependencies(); a call that raised is repeated
\* only while the list it grows holds at most MaxDeps entries.
Dependencies(h, i) ==
    /\ assets[h].some
    /\ i \in DOMAIN assets[h].val.versions
    /\ Len(assets[h].val.versions[i].dependencies) <= MaxDeps
    /\ Resolved(h, i, dependencies(assets[h].val.versions[i]))
    /\ UNCHANGED <<store, container, named, threads, stack>>

Next ==
    \/ \E path \in SlotIds, kind \in CONTENT_TYPE : Load(1, path, kind)
    \/ \E c \in NewContents : AddVersion(1, c)

Spec == Init /\ [][Next]_vars

\* Dependency resolution over the versions of one loaded Asset.
InitDeps ==
    /\ store \in DepStores
    /\ assets = NoAssets
    /\ container = Container(File)
    /\ named = None
    /\ threads = <<>>
    /\ stack = <<>>
    /\ result = [op |-> "init"]

NextDeps ==
    \/ \E path \in SlotIds, kind \in CONTENT_TYPE : Load(1, path, kind)
    \/ \E i \in 1..MaxVersion : Dependencies(1, i)

SpecDeps == InitDeps /\ [][NextDeps]_vars

-----------------------------------------------------------------------------
(* Containers on their own                                                 *)

\* A second AssetVersion object for (B, 1), and one for (B, 2).
OtherVersionAgain == [OtherVersion EXCEPT !.asset.id = <<0, 0>>]
OtherVersionTwo == [OtherVersion EXCEPT !.version = 2]

\* What a caller passes as a content item.
Items ==
    {Str(<<"f", 1>>), Str(<<"f", 2>>), Num(7),
     OtherVersion, OtherVersionAgain, OtherVersionTwo}

NoStore == [s \in SlotIds |-> None]

\* FileContainer() or AssetContainer()
InitContainer ==
    /\ store = NoStore
    /\ assets = NoAssets
    /\ container \in {Container(File), Container(AssetType)}
    /\ named = None
    /\ threads = <<>>
    /\ stack = <<>>
    /\ result = [op |-> "init"]

\* container.set_contents(c)
SetContents(c) ==
    /\ container' = set_contents(container, c)
    /\ result' = [op |-> "set_contents", arg |-> c]
    /\ UNCHANGED <<store, assets, named, threads, stack>>

\* container.add_content(x)
AddContent(x) ==
    /\ container' = add_content(container, x)
    /\ result' = [op |-> "add_content", arg |-> x]
    /\ UNCHANGED <<store, assets, named, threads, stack>>

NextContainer ==
    \/ \E c \in SeqsUpTo(Items, MaxContents) : SetContents(c)
    \/ \E x \in Items : AddContent(x)

SpecContainer == InitContainer /\ [][NextContainer]_vars

-----------------------------------------------------------------------------
(* Persisting a version and loading it again                               *)

InitRoundTrip ==
    /\ store = NoStore
    /\ assets = NoAssets
    /\ container = Container(File)
    /\ named = None
    /\ threads = <<>>
    /\ stack = <<>>
    /\ result = [op |-> "init"]

\* The dict a caller hands to Store.load_data after adding the payload of an
\* AssetVersion to the entry of its slot.
persisted(av) ==
    LET path == slot(av)
        key == digits(av.version)
        old == IF store[path].some /\ store[path].val.versions.some
               THEN store[path].val.versions.val
               ELSE <<>>
    IN [store EXCEPT ![path] =
           Some([type |-> av.asset.slot.kind,
                 versions |-> Some([k \in (DOMAIN old) \cup {key} |->
                                      IF k = key
                                      THEN Payload(av.container.val.contents, <<>>)
                                      ELSE old[k]])])]

\* Store.load_data(d), d holding the payload of asset_.versions()[i - 1]
Persist(h, i) ==
    /\ assets[h].some
    /\ i \in DOMAIN assets[h].val.versions
    /\ assets[h].val.versions[i].container.some
    /\ store' = persisted(assets[h].val.versions[i])
    /\ result' = [op |-> "persist", h |-> h, i |-> i]
    /\ UNCHANGED <<assets, container, named, threads, stack>>

\* Handle 1 adds versions and persists them; handle 2 only loads.
NextRoundTrip ==
    \/ \E h \in Handles, path \in SlotIds, kind \in CONTENT_TYPE : Load(h, path, kind)
    \/ \E c \in NewContents : AddVersion(1, c)
    \/ \E i \in 1..MaxLen : Persist(1, i)

SpecRoundTrip == InitRoundTrip /\ [][NextRoundTrip]_vars

-----------------------------------------------------------------------------
(* utils.AssetNameGenerator, utils.slot_parser, asset.AssetBase.name       *)

\* A string is the sequence of its characters.  The characters [a-z0-9]
\* matches, among those the model writes.
LowerOrDigit == {"a", "b", "0", "1", "2", "3", "4", "5", "6", "7", "8", "9"}

\* The length of the longest run of [a-z0-9] characters of s from i on.
RECURSIVE run(_, _)
run(s, i) ==
    IF i > Len(s) THEN 0
    ELSE IF s[i] \notin LowerOrDigit THEN 0
    ELSE 1 + run(s, i + 1)

\* re.match(".*" + lit + "([a-z0-9]+)", s) for a literal lit: None, or the
\* group and the end of the match.  The greedy .* takes the last place where
\* lit is followed by a character of the class, the greedy group the whole
\* run of such characters.
matched(s, first, n) ==
    Some([group |-> SubSeq(s, first, first + n - 1), end |-> first + n - 1])

last_match(lit, s, starts) ==
    IF starts = {} THEN None
    ELSE matched(s, Len(lit) + (CHOOSE x \in starts : \A y \in starts : y <= x),
                 run(s, Len(lit) + (CHOOSE x \in starts : \A y \in starts : y <= x)))

re_match(lit, s) ==
    last_match(lit, s, {i \in 1..Len(s) :
                          /\ i + Len(lit) <= Len(s)
                          /\ SubSeq(s, i, i + Len(lit) - 1) = lit
                          /\ s[i + Len(lit)] \in LowerOrDigit})

\* slot_parser: re.match(".*\/{}:([a-z0-9]+)".format(token), slot)
group_or_raise(m) ==
    IF m.some THEN Return(m.val.group) ELSE Raise("TokenNotFoundException")

slot_parser(slot_, token) ==
    group_or_raise(re_match(<<"/">> \o token \o <<":">>, slot_))

\* A rule is {"regex": ".*<T>:([a-z0-9]+)", "tokens": [...]}; the model
\* writes its regex as the token T.  re.match("({})".format(regex), slot)
\* and match.groups()[0] == slot: the regex matches the whole of the slot.
whole(match, slot_) == match.some /\ match.val.end = Len(slot_)

full_match(regex, slot_) == whole(re_match(regex \o <<":">>, slot_), slot_)

\* The loop of _get_tokens from the k-th rule in iteration order on.
RECURSIVE get_tokens_loop(_, _, _, _)
get_tokens_loop(name_rules, k, slot_, re_tokens) ==
    IF k > Len(name_rules) THEN re_tokens
    ELSE IF ~full_match(name_rules[k].regex, slot_)
    THEN get_tokens_loop(name_rules, k + 1, slot_, re_tokens)
    ELSE IF Len(name_rules[k].tokens) > 0 THEN name_rules[k].tokens
    ELSE get_tokens_loop(name_rules, k + 1, slot_, name_rules[k].tokens)

_get_tokens(self, slot_) == get_tokens_loop(self.name_rules, 1, slot_, <<>>)

\* "_".join(slot_parser(slot, x) for x in tokens), from the k-th token on:
\* the first token that is not found ends the join with its exception.
RECURSIVE join(_, _, _)
join_parts(part, rest) ==
    IF rest.raised THEN rest ELSE Return(part.val \o <<"_">> \o rest.val)

join_step(part, slot_, tokens, k) ==
    IF part.raised THEN part
    ELSE IF k = Len(tokens) THEN part
    ELSE join_parts(part, join(slot_, tokens, k + 1))

join(slot_, tokens, k) ==
    IF k > Len(tokens) THEN Return(<<>>)
    ELSE join_step(slot_parser(slot_, tokens[k]), slot_, tokens, k)

\* AssetNameGenerator.generate_name: TokenNotFoundException is caught and
\* logged, and the method then returns None.
generated(joined) ==
    IF joined.raised THEN Return(None) ELSE Return(Some(joined.val))

generate_name(self) ==
    generated(join(self.slot, _get_tokens(self, self.slot), 1))

\* AssetBase.name: the object afterwards and what the call gave.  A name
\* that is None or "" is generated again; _name keeps what was generated.
keep_name(self, made) ==
    IF made.raised THEN [self |-> self, ret |-> made]
    ELSE [self |-> [self EXCEPT !.name = made.val], ret |-> made]

AssetBase_name(self) ==
    IF self.name.some /\ self.name # Some(<<>>)
    THEN [self |-> self, ret |-> Return(self.name)]
    ELSE keep_name(self, generate_name(self))

DigitChars == <<"0", "1", "2", "3", "4", "5", "6", "7", "8", "9">>

\* "{name}_v{version}".format(name=self._name, version=self.version())
format_name(name_, version_) ==
    (IF name_.some THEN name_.val ELSE <<"N", "o", "n", "e">>)
        \o <<"_", "v">>
        \o [i \in DOMAIN digits(version_) |-> DigitChars[digits(version_)[i] + 1]]

\* AssetVersion.name: super().name(), then the formatted self._name.
formatted(called) ==
    IF called.ret.raised THEN called
    ELSE [self |-> called.self,
          ret |-> Return(Some(format_name(called.self.name, called.self.version)))]

AssetVersion_name(self) == formatted(AssetBase_name(self))

name(self) ==
    IF self.type = "AssetVersion" THEN AssetVersion_name(self)
    ELSE AssetBase_name(self)

-----------------------------------------------------------------------------
(* Naming an Asset or an AssetVersion                                      *)

\* Slot paths are at most MaxComponents components <token>:<value> joined
\* by "/"; a name rule config holds at most MaxRules rules.
Tokens == {<<"P">>, <<"G">>, <<"A">>}
Values == {<<"a">>, <<"b", "C">>}
Components == {t \o <<":">> \o v : t \in Tokens, v \in Values}

RECURSIVE join_path(_)
join_path(cs) ==
    IF Len(cs) = 1 THEN cs[1]
    ELSE cs[1] \o <<"/">> \o join_path(Tail(cs))

SlotPaths == {join_path(cs) : cs \in SeqsUpTo(Components, MaxComponents) \ {<<>>}}

\* Rules whose regex is ".*A:([a-z0-9]+)" or ".*G:([a-z0-9]+)".
NameRules ==
    {[regex |-> <<"A">>, tokens |-> <<<<"G">>, <<"A">>>>],
     [regex |-> <<"A">>, tokens |-> <<<<"P">>, <<"A">>>>],
     [regex |-> <<"G">>, tokens |-> <<>>]}

\* A config in the order a generator iterates its rules.
NameRuleConfigs == SeqsUpTo(NameRules, MaxRules)

\* Asset(slot) or AssetVersion(asset, 1) on a slot path, its name not set,
\* its generator loaded with a config.
InitNames ==
    /\ store = NoStore
    /\ assets = NoAssets
    /\ container = Container(File)
    /\ named \in {Some([type |-> t, slot |-> path, version |-> 1, name |-> None,
                        name_rules |-> config]) :
                    t \in {"Asset", "AssetVersion"}, path \in SlotPaths,
                    config \in NameRuleConfigs}
    /\ threads = <<>>
    /\ stack = <<>>
    /\ result = [op |-> "init"]

\* item._name_generator.generate_name()
GenerateName ==
    /\ named.some
    /\ result' = [op |-> "generate_name", ret |-> generate_name(named.val)]
    /\ UNCHANGED <<store, assets, container, named, threads, stack>>

\* item.name()
Names(called) ==
    /\ named' = Some(called.self)
    /\ result' = [op |-> "name", ret |-> called.ret]

Name ==
    /\ named.some
    /\ Names(name(named.val))
    /\ UNCHANGED <<store, assets, container, threads, stack>>

NextNames == GenerateName \/ Name

SpecNames == InitNames /\ [][NextNames]_vars

-----------------------------------------------------------------------------
(* Threads calling dependencies() on one AssetVersion                      *)

\* The threads call dependencies() on version 1 of the Asset of handle 1.
\* Nothing in dependencies() or _load_dependencies takes a lock, so a thread
\* may be preempted between any two of: the test of the flag, the read of
\* the recorded pairs, the resolution of a pair, the append of what the
\* pair resolved to, and the setting of the flag.
Threads == {1, 2}

Idle == [pc |-> "idle", data |-> <<>>, k |-> 0, found |-> <<>>, exc |-> ""]

\* The AssetVersion the threads share.
shared == assets[1].val.versions[1]

\* Stores for the threads: slot "A" is a Leaf slot whose version 1 records
\* any list of pairs; slot "B" has no entry or is a Leaf slot.
RaceStores ==
    {[s \in SlotIds |-> IF s = "A" THEN DepEntry("A", File, MaxVersion, d) ELSE e] :
        d \in DepLists,
        e \in {None, DepEntry("B", File, MaxVersion, <<>>)}}

InitRace ==
    /\ store \in RaceStores
    /\ assets = NoAssets
    /\ container = Container(File)
    /\ named = None
    /\ threads = [t \in Threads |-> Idle]
    /\ stack = <<>>
    /\ result = [op |-> "init"]

\* if not self._dependencies_loaded: ... else: return self._dependencies
Enter(t) ==
    /\ assets[1].some
    /\ threads[t].pc = "idle"
    /\ threads' = [threads EXCEPT ![t].pc =
                      IF shared.dependencies_loaded THEN "done" ELSE "read"]
    /\ UNCHANGED <<store, assets, container, named, result, stack>>

\* for dep in Store.get_dependency_data(self.slot(), self.version()):
ReadPairs(t) ==
    /\ threads[t].pc = "read"
    /\ threads' = [threads EXCEPT
                      ![t].data = get_dependency_data(slot(shared), shared.version),
                      ![t].k = 1,
                      ![t].pc = IF get_dependency_data(slot(shared), shared.version) = <<>>
                                THEN "flag" ELSE "resolve"]
    /\ UNCHANGED <<store, assets, container, named, result, stack>>

\* What a thread holds once Asset(slot=slot_) returned or raised.
Resolving(t, asset_) ==
    threads' = [threads EXCEPT
                   ![t].pc = IF asset_.raised THEN "done" ELSE "append",
                   ![t].exc = IF asset_.raised THEN asset_.exc ELSE "",
                   ![t].found =
                       IF asset_.raised THEN <<>>
                       ELSE SelectSeq(asset_.val.versions,
                                      LAMBDA asset_version :
                                          asset_version.version = threads[t].data[threads[t].k][2])]

\* stype_ = Store.get_type_data(dep[0]); slot_ = Slot(...); asset_ = Asset(slot_)
Resolve(t) ==
    /\ threads[t].pc = "resolve"
    /\ Resolving(t, Asset(shared.asset.id \o <<shared.version, threads[t].k, t>>,
                          Slot(get_type_data(threads[t].data[threads[t].k][1]),
                               threads[t].data[threads[t].k][1])))
    /\ UNCHANGED <<store, assets, container, named, result, stack>>

\* self._dependencies.append(asset_version), then the next pair if any
AppendFound(t) ==
    /\ threads[t].pc = "append"
    /\ assets' = [assets EXCEPT ![1].val.versions[1].dependencies =
                     @ \o threads[t].found]
    /\ threads' = [threads EXCEPT
                      ![t].found = <<>>,
                      ![t].k = @ + 1,
                      ![t].pc = IF threads[t].k = Len(threads[t].data)
                                THEN "flag" ELSE "resolve"]
    /\ UNCHANGED <<store, container, named, result, stack>>

\* self._dependencies_loaded = True; return self._dependencies
SetLoaded(t) ==
    /\ threads[t].pc = "flag"
    /\ assets' = [assets EXCEPT ![1].val.versions[1].dependencies_loaded = TRUE]
    /\ threads' = [threads EXCEPT ![t].pc = "done"]
    /\ UNCHANGED <<store, container, named, result, stack>>

NextRace ==
    \/ Load(1, "A", File)
    \/ \E t \in Threads :
          Enter(t) \/ ReadPairs(t) \/ Resolve(t) \/ AppendFound(t) \/ SetLoaded(t)

SpecRace == InitRace /\ [][NextRace]_vars

-----------------------------------------------------------------------------
(* Adding dependencies by hand                                             *)

\* Stores: slot "A" is a Leaf slot whose version 1 records any list of
\* pairs, slot "B" a Leaf slot with versions 1..MaxVersion.
AddStores ==
    {[s \in SlotIds |-> IF s = "A" THEN DepEntry("A", File, 1, d)
                        ELSE DepEntry("B", File, MaxVersion, <<>>)] :
        d \in DepLists}

\* What a caller passes to add_dependency.
NewDependencies == {OtherVersion, OtherVersionAgain, OtherVersionTwo}

InitAdd ==
    /\ store \in AddStores
    /\ assets = NoAssets
    /\ container = Container(File)
    /\ named = None
    /\ threads = <<>>
    /\ stack = <<>>
    /\ result = [op |-> "init"]

DependencyAdded(h, i, x, made) ==
    /\ assets' = IF made.raised THEN assets
                 ELSE [assets EXCEPT ![h] = Some([@.val EXCEPT !.versions[i] = made.val])]
    /\ result' = [op |-> "add_dependency", h |-> h, i |-> i, arg |-> x,
                  exc |-> IF made.raised THEN made.exc ELSE ""]

\* asset_.versions()[i - 1].add_dependency(x)
AddDependency(h, i, x) ==
    /\ assets[h].some
    /\ i \in DOMAIN assets[h].val.versions
    /\ DependencyAdded(h, i, x, add_dependency(assets[h].val.versions[i], x))
    /\ UNCHANGED <<store, container, named, threads, stack>>

NextAdd ==
    \/ Load(1, "A", File)
    \/ Dependencies(1, 1)
    \/ \E x \in NewDependencies : AddDependency(1, 1, x)

SpecAdd == InitAdd /\ [][NextAdd]_vars

-----------------------------------------------------------------------------
(* Containers that also remove and load                                    *)

\* Stores with contents to load: slot "A" is a Leaf slot whose version 1
\* holds two files or one file twice, slot "B" a Composite slot whose
\* version 1 holds an AssetVersion.
ContentStores ==
    {[s \in SlotIds |->
        IF s = "A"
        THEN Some([type |-> Some(File),
                   versions |-> Some([key \in {digits(1)} |-> Payload(c, <<>>)])])
        ELSE DepEntry("B", AssetType, 1, <<>>)] :
        c \in {<<Str(<<"f", 1>>), Str(<<"f", 2>>)>>,
               <<Str(<<"f", 1>>), Str(<<"f", 1>>)>>}}

InitContents ==
    /\ store \in ContentStores
    /\ assets = NoAssets
    /\ container \in {Container(File), Container(AssetType)}
    /\ named = None
    /\ threads = <<>>
    /\ stack = <<>>
    /\ result = [op |-> "init"]

Removed(x, made) ==
    /\ container' = IF made.raised THEN container ELSE made.val
    /\ result' = [op |-> "remove_content", arg |-> x,
                  exc |-> IF made.raised THEN made.exc ELSE ""]

\* container.remove_content(x)
RemoveContent(x) ==
    /\ Removed(x, remove_content(container, x))
    /\ UNCHANGED <<store, assets, named, threads, stack>>

\* container.load_contents(path, n)
LoadContents(path, n) ==
    /\ container' = load_contents(container, path, n)
    /\ result' = [op |-> "load_contents", path |-> path, n |-> n]
    /\ UNCHANGED <<store, assets, named, threads, stack>>

NextContents ==
    \/ \E c \in SeqsUpTo(Items, MaxContents) : SetContents(c)
    \/ \E x \in Items : AddContent(x)
    \/ \E x \in Items \cup {Num(0)} : RemoveContent(x)
    \/ \E path \in SlotIds, n \in 1..MaxVersion : LoadContents(path, n)

SpecContents == InitContents /\ [][NextContents]_vars

-----------------------------------------------------------------------------
(* One caller inside dependencies(), statement by statement                *)

\* The caller calls dependencies() on a version of the Asset of handle 1.
\* dependencies() calls itself once more, on the same object, for the
\* length it logs after it set the flag; every open activation is a frame
\* of the stack. Nothing between the call and its return is caught, so an
\* exception out of Asset(slot_) closes every frame.

\* Stores for the caller: slot "A" is a Leaf slot whose version 1 records
\* any list of pairs, its own among them; slot "B" has no entry, an entry
\* without a type, or is a Leaf slot whose version 1 may depend back on
\* version 1 of "A".
ResolveStores ==
    {[s \in SlotIds |-> IF s = "A" THEN DepEntry("A", File, MaxVersion, d) ELSE e] :
        d \in DepLists,
        e \in {None, Some([type |-> None, versions |-> Some(<<>>)])}
              \cup {DepEntry("B", File, MaxVersion, back) :
                        back \in {<<>>, <<<<"A", 1>>>>}}}

InitResolve ==
    /\ store \in ResolveStores
    /\ assets = NoAssets
    /\ container = Container(File)
    /\ named = None
    /\ threads = <<>>
    /\ stack = <<>>
    /\ result = [op |-> "init"]

\* The frame of a call of dependencies() on version i, before its first
\* statement.
Frame(i) ==
    [i |-> i, pc |-> "enter", data |-> <<>>, k |-> 0, made |-> None, found |-> <<>>]

\* The innermost frame and the AssetVersion it runs on.
top == stack[Len(stack)]
callee == assets[1].val.versions[top.i]

\* asset_.versions()[i - 1].dependencies(); a call that raised is repeated
\* only while the list it grows holds at most MaxDeps entries.
CallDependencies(i) ==
    /\ stack = <<>>
    /\ assets[1].some
    /\ i \in DOMAIN assets[1].val.versions
    /\ Len(assets[1].val.versions[i].dependencies) <= MaxDeps
    /\ stack' = <<Frame(i)>>
    /\ result' = [op |-> "call", i |-> i]
    /\ UNCHANGED <<store, assets, container, named, threads>>

\* if not self._dependencies_loaded: ... else: return self._dependencies
TestLoaded ==
    /\ stack # <<>>
    /\ top.pc = "enter"
    /\ stack' = [stack EXCEPT ![Len(stack)].pc =
                    IF callee.dependencies_loaded THEN "return" ELSE "read"]
    /\ UNCHANGED <<store, assets, container, named, threads, result>>

\* for dep in Store.get_dependency_data(self.slot(), self.version()):
ReadRecorded ==
    /\ stack # <<>>
    /\ top.pc = "read"
    /\ stack' = [stack EXCEPT
                    ![Len(stack)].data = get_dependency_data(slot(callee), callee.version),
                    ![Len(stack)].k = 1,
                    ![Len(stack)].pc =
                        IF get_dependency_data(slot(callee), callee.version) = <<>>
                        THEN "flag" ELSE "resolve"]
    /\ UNCHANGED <<store, assets, container, named, threads, result>>

\* stype_ = Store.get_type_data(dep[0]); slot_ = Slot(...); asset_ = Asset(slot_)
ResolvePair ==
    /\ stack # <<>>
    /\ top.pc = "resolve"
    /\ stack' = [stack EXCEPT
                    ![Len(stack)].pc = "match",
                    ![Len(stack)].made =
                        Asset(callee.asset.id \o <<callee.version, top.k>>,
                              Slot(get_type_data(top.data[top.k][1]),
                                   top.data[top.k][1]))]
    /\ UNCHANGED <<store, assets, container, named, threads, result>>

\* An exception out of Asset(slot_) leaves dependencies() and the call it
\* may be nested in; otherwise
\* for asset_version in asset_.versions():
\*     if asset_version.version() == dep[1]:
MatchVersions ==
    /\ stack # <<>>
    /\ top.pc = "match"
    /\ stack' = IF top.made.raised THEN <<>>
                ELSE [stack EXCEPT
                         ![Len(stack)].pc = "append",
                         ![Len(stack)].made = None,
                         ![Len(stack)].found =
                             SelectSeq(top.made.val.versions,
                                       LAMBDA asset_version :
                                           asset_version.version = top.data[top.k][2])]
    /\ result' = IF top.made.raised
                 THEN [op |-> "dependencies", i |-> stack[1].i, exc |-> top.made.exc]
                 ELSE result
    /\ UNCHANGED <<store, assets, container, named, threads>>

\* self._dependencies.append(asset_version), then the next pair if any
AppendResolved ==
    /\ stack # <<>>
    /\ top.pc = "append"
    /\ assets' = [assets EXCEPT ![1].val.versions[top.i].dependencies = @ \o top.found]
    /\ stack' = [stack EXCEPT
                    ![Len(stack)].found = <<>>,
                    ![Len(stack)].k = @ + 1,
                    ![Len(stack)].pc =
                        IF top.k = Len(top.data) THEN "flag" ELSE "resolve"]
    /\ UNCHANGED <<store, container, named, threads, result>>

\* self._dependencies_loaded = True
MarkLoaded ==
    /\ stack # <<>>
    /\ top.pc = "flag"
    /\ assets' = [assets EXCEPT ![1].val.versions[top.i] =
                     set_dependencies_loaded(
                         [self |-> callee, exc |-> "", store_calls |-> 0]).self]
    /\ stack' = [stack EXCEPT ![Len(stack)].pc = "log"]
    /\ UNCHANGED <<store, container, named, threads, result>>

\* logger.debug("Loaded {} dependencies".format(len(self.dependencies())))
LogLoaded ==
    /\ stack # <<>>
    /\ top.pc = "log"
    /\ Len(stack) < MaxDepth
    /\ stack' = Append([stack EXCEPT ![Len(stack)].pc = "return"], Frame(top.i))
    /\ UNCHANGED <<store, assets, container, named, threads, result>>

\* return self._dependencies
ReturnDependencies ==
    /\ stack # <<>>
    /\ top.pc = "return"
    /\ stack' = SubSeq(stack, 1, Len(stack) - 1)
    /\ result' = IF Len(stack) = 1
                 THEN [op |-> "dependencies", i |-> top.i, exc |-> ""]
                 ELSE result
    /\ UNCHANGED <<store, assets, container, named, threads>>

\* The statements of an open call that build no Asset.
Bookkeeping ==
    \/ TestLoaded
    \/ ReadRecorded
    \/ MatchVersions
    \/ AppendResolved
    \/ MarkLoaded
    \/ LogLoaded
    \/ ReturnDependencies

NextResolve ==
    \/ Load(1, "A", File)
    \/ \E i \in 1..MaxVersion : CallDependencies(i)
    \/ ResolvePair
    \/ Bookkeeping

\* ResolvePair is enabled exactly when the innermost frame is at the
\* statement that builds the Asset: its guard is this, and it moves the frame.
AtResolvePair == stack # <<>> /\ top.pc = "resolve"

\* WF_vars(ResolvePair), with ENABLED <<ResolvePair>>_vars written out.
ResolvePairFair == []<>(~AtResolvePair) \/ []<><<ResolvePair>>_vars

\* The interpreter runs the next statement of an open call, and Asset(slot_)
\* returns or raises; the caller need not call at all.
SpecResolve ==
    InitResolve /\ [][NextResolve]_vars /\ WF_vars(Bookkeeping) /\ ResolvePairFair

-----------------------------------------------------------------------------
(* Version history (under Spec, whose Store never changes)                 *)

\* The version numbers the Store holds for a slot (none without an entry).
StoredVersions(path) ==
    IF get_versions_data(path).some THEN DOMAIN get_versions_data(path).val ELSE {}

\* The version numbers of an Asset are 1..Len in order, and latest_version
\* is the number of the last one, 0 without versions.
Numbered(a) ==
    /\ \A i \in DOMAIN a.versions : a.versions[i].version = i
    /\ a.latest_version = Len(a.versions)

\* Every item of a content list is valid for the kind of the Asset.
ValidFor(a, c) ==
    /\ c.some
    /\ c.val # <<>>
    /\ \A i \in DOMAIN c.val :
          IF a.slot.kind = Some(File) THEN isinstance(c.val[i], "str")
          ELSE isinstance(c.val[i], "AssetVersion")

\* C1, its state half: an Asset whose history was empty when it was loaded
\* holds versions numbered 1..N in order, with latest_version = N.
C1_NumberedFromEmpty ==
    \A h \in Handles :
        (assets[h].some /\ StoredVersions(assets[h].val.slot.slot_id) = {})
            => Numbered(assets[h].val)

\* C1, its step half: on such an Asset a call of add_version with non-empty
\* valid contents returns and appends exactly one AssetVersion, numbered one
\* more than the count before, keeping the versions before it.
C1_AddAppendsNext ==
    \A h \in Handles :
        (/\ assets[h].some
         /\ StoredVersions(assets[h].val.slot.slot_id) = {}
         /\ result'.op = "add_version"
         /\ result'.h = h
         /\ ValidFor(assets[h].val, result'.contents))
        => /\ result'.exc = ""
           /\ Len(assets'[h].val.versions) = Len(assets[h].val.versions) + 1
           /\ SubSeq(assets'[h].val.versions, 1, Len(assets[h].val.versions))
                = assets[h].val.versions
           /\ assets'[h].val.versions[Len(assets'[h].val.versions)].version
                = Len(assets[h].val.versions) + 1
           /\ assets'[h].val.latest_version = Len(assets[h].val.versions) + 1

\* C1: add_version N times on an Asset loaded with an empty history yields
\* the version numbers 1..N in order, and latest_version() = N.
C1_AddVersionYieldsOneToN == []C1_NumberedFromEmpty /\ [][C1_AddAppendsNext]_vars

\* C1 witness: an Asset loaded empty that add_version has extended twice.
C1_Witness ==
    \E h \in Handles :
        /\ assets[h].some
        /\ StoredVersions(assets[h].val.slot.slot_id) = {}
        /\ Len(assets[h].val.versions) >= 2
        /\ result.op = "add_version"
        /\ result.exc = ""

\* C2 as stated: whatever the Store held at load, the versions of an Asset
\* are numbered 1..Len without gaps and latest_version is the last number.
C2_AsStated ==
    \A h \in Handles : assets[h].some => Numbered(assets[h].val)

\* C2 amended: an Asset loaded for a slot whose stored version numbers are
\* exactly 1..K (K = 0 without entry or versions) holds, after any sequence
\* of add_version calls, versions numbered 1..Len in ascending order without
\* gaps, and latest_version is the number of the last one, or 0 when empty.
C2_NumberedWhenStoreGapFree ==
    \A h \in Handles :
        (/\ assets[h].some
         /\ StoredVersions(assets[h].val.slot.slot_id)
                = 1..Cardinality(StoredVersions(assets[h].val.slot.slot_id)))
        => Numbered(assets[h].val)

\* C2 witness: an Asset loaded with the stored versions 1..2 and extended
\* by add_version.
C2_Witness ==
    \E h \in Handles :
        /\ assets[h].some
        /\ StoredVersions(assets[h].val.slot.slot_id) = {1, 2}
        /\ Len(assets[h].val.versions) = 3
        /\ result.op = "add_version"

\* C5: loading a slot whose Store entry reports another kind than the Slot
\* declares (or none) fails with DataMismatch and leaves the caller without
\* an Asset.
C5_MismatchFailsLoad ==
    (/\ result.op = "load"
     /\ get_entries(result.path).some
     /\ get_type_data(result.path) # Some(result.kind))
    => /\ result.exc = "DataMismatchException"
       /\ ~assets[result.h].some

\* C5 witness: a load failed with DataMismatch on an entry that holds versions.
C5_Witness ==
    /\ result.op = "load"
    /\ result.exc = "DataMismatchException"
    /\ get_type_data(result.path).some
    /\ StoredVersions(result.path) # {}

\* C6: loading a slot without a Store entry is no error and gives an Asset
\* with no versions, latest_version 0, and version(n) absent for every n.
C6_NewSlotLoadsEmpty ==
    (result.op = "load" /\ ~get_entries(result.path).some)
    => /\ result.exc = ""
       /\ assets[result.h].some
       /\ versions(assets[result.h].val) = <<>>
       /\ latest_version(assets[result.h].val) = 0
       /\ \A n \in 0..(MaxVersion + MaxLen) : version(assets[result.h].val, n) = None

\* C6 witness: an Asset was loaded for a slot without a Store entry.
C6_Witness ==
    /\ result.op = "load"
    /\ ~get_entries(result.path).some
    /\ assets[result.h].some

-----------------------------------------------------------------------------
(* Dependencies (under SpecDeps, whose Store never changes)                *)

\* Two lists hold, position by position, AssetVersions of the same slot and
\* version number.
SameIdentities(xs, ys) ==
    /\ Len(xs) = Len(ys)
    /\ \A k \in DOMAIN xs : slot(xs[k]) = slot(ys[k]) /\ xs[k].version = ys[k].version

\* C3, the step: a call of dependencies() that follows a call on the same
\* AssetVersion that returned also returns, a list equal to the first one
\* position by position by (slot, version), and makes no call to the Store.
C3_SecondCall ==
    (/\ result.op = "dependencies"
     /\ ~result.ret.raised
     /\ result'.op = "dependencies"
     /\ result'.h = result.h
     /\ result'.i = result.i)
    => /\ ~result'.ret.raised
       /\ SameIdentities(result.ret.val, result'.ret.val)
       /\ result'.store_calls = 0

\* C3: dependencies() is idempotent: two consecutive calls return lists that
\* are element-wise equal by (slot, version), and the second call reads
\* nothing from the Store.
C3_DependenciesIdempotent == [][C3_SecondCall]_vars

\* C3 witness: a call served from the resolved list, which is not empty.
C3_Witness ==
    /\ result.op = "dependencies"
    /\ ~result.ret.raised
    /\ result.store_calls = 0
    /\ Len(result.ret.val) >= 1
    /\ assets[result.h].val.versions[result.i].dependencies_loaded

\* The pairs the Store records for the AssetVersion of the last call.
RecordedPairs ==
    get_dependency_data(slot(assets[result.h].val.versions[result.i]),
                        assets[result.h].val.versions[result.i].version)

\* C4 as stated, for recorded pairs that each name a version the Store holds:
\* dependencies() returns one AssetVersion per recorded pair, in recorded
\* order, each equal to its pair by (slot, version), and the contents() of
\* each are the contents the Store declares for that (slot, version).
C4_AsStated ==
    (/\ result.op = "dependencies"
     /\ ~result.ret.raised
     /\ RecordedPairs # <<>>
     /\ \A k \in DOMAIN RecordedPairs :
            get_version_data(RecordedPairs[k][1], RecordedPairs[k][2]).some)
    => /\ Len(result.ret.val) = Len(RecordedPairs)
       /\ \A k \in DOMAIN RecordedPairs :
            /\ slot(result.ret.val[k]) = RecordedPairs[k][1]
            /\ result.ret.val[k].version = RecordedPairs[k][2]
            /\ contents(result.ret.val[k])
                 = Some(get_content_data(RecordedPairs[k][1], RecordedPairs[k][2]))

\* Every AssetVersion the caller can reach: the versions of its Assets and
\* the dependencies resolved for them.
AllVersions ==
    UNION {Range(assets[h].val.versions)
           \cup UNION {Range(assets[h].val.versions[i].dependencies) :
                          i \in DOMAIN assets[h].val.versions} :
           h \in {x \in Handles : assets[x].some}}

\* Values that are no AssetVersion: a string, a number, an Asset.
NonVersions ==
    {Str(<<"f", 1>>), Num(7)} \cup {assets[h].val : h \in {x \in Handles : assets[x].some}}

\* C10: two AssetVersions, whichever Asset object built them, compare equal
\* iff their slot ids and their version numbers match; comparing one with a
\* value that is no AssetVersion raises TypeError.
C10_EqualIffSameSlotAndVersion ==
    /\ \A a \in AllVersions, b \in AllVersions :
          AssetVersion_eq(a, b)
            = Return(a.asset.slot.slot_id = b.asset.slot.slot_id /\ a.version = b.version)
    /\ \A a \in AllVersions, o \in NonVersions :
          AssetVersion_eq(a, o) = Raise("TypeError")

\* C10 witness: two AssetVersions built under different Asset objects, one
\* by loading the slot and one by resolving a dependency, compare equal, and
\* two that differ only in the version number compare unequal.
C10_Witness ==
    /\ \E a \in AllVersions, b \in AllVersions :
          /\ a.asset.id # b.asset.id
          /\ a # b
          /\ AssetVersion_eq(a, b) = Return(TRUE)
    /\ \E a \in AllVersions, b \in AllVersions :
          /\ a.asset.slot.slot_id = b.asset.slot.slot_id
          /\ AssetVersion_eq(a, b) = Return(FALSE)

-----------------------------------------------------------------------------
(* Containers (under SpecContainer)                                        *)

\* An item is valid for a container kind: a string for Leaf (File), an
\* AssetVersion for Composite (Asset).
ValidItem(kind, x) ==
    IF kind = File THEN x.type = "str" ELSE x.type = "AssetVersion"

\* Two items are the same by identity: the same string for Leaf, the same
\* (slot, version) pair for Composite.
SameItem(kind, x, y) ==
    IF kind = File THEN x = y
    ELSE x.asset.slot.slot_id = y.asset.slot.slot_id /\ x.version = y.version

\* C8, the step: add_content of an item that is invalid for the kind, or
\* that an entry already equals by identity, changes nothing of the container.
C8_RejectedAdd ==
    (/\ result'.op = "add_content"
     /\ \/ ~ValidItem(container.type, result'.arg)
        \/ \E k \in DOMAIN container.contents :
              SameItem(container.type, container.contents[k], result'.arg))
    => container' = container

\* C8: for both container kinds, add_content with an invalid item or with a
\* duplicate by identity is a silent no-op: the content count does not grow
\* and the content sequence is unchanged.
C8_AddContentRejectsSilently == [][C8_RejectedAdd]_vars

\* C8 witness: add_content was called on a Composite container with another
\* object of the (slot, version) of its only entry, and the entry is alone.
C8_Witness ==
    /\ result.op = "add_content"
    /\ container.type = AssetType
    /\ Len(container.contents) = 1
    /\ result.arg.type = "AssetVersion"
    /\ result.arg # container.contents[1]
    /\ SameItem(AssetType, container.contents[1], result.arg)

\* C9, the step: set_contents of a list whose items are all valid makes the
\* list the contents; of a list with an invalid item, changes nothing.
C9_SetAllOrNothing ==
    (result'.op = "set_contents")
    => IF \A k \in DOMAIN result'.arg : ValidItem(container.type, result'.arg[k])
       THEN container'.contents = result'.arg /\ container'.type = container.type
       ELSE container' = container

\* C9: set_contents is all-or-nothing: a list of valid items replaces the
\* contents, a list with any invalid item is rejected and the prior
\* contents are retained.
C9_SetContentsAllOrNothing == [][C9_SetAllOrNothing]_vars

\* C9 witness: a list with an invalid item was rejected by a container that
\* holds contents.
C9_Witness ==
    /\ result.op = "set_contents"
    /\ \E k \in DOMAIN result.arg : ~ValidItem(container.type, result.arg[k])
    /\ \E k \in DOMAIN result.arg : ValidItem(container.type, result.arg[k])
    /\ container.contents # <<>>

-----------------------------------------------------------------------------
(* Round trip (under SpecRoundTrip)                                        *)

\* The versions an Asset handle holds, none when the handle is unset.
Held(h) == IF assets[h].some THEN Range(assets[h].val.versions) ELSE {}

\* C7: an AssetVersion made new with a valid content list C exposes
\* contents() == C, and an AssetVersion loaded for the same (slot, version)
\* once the payload is in the Store exposes the same contents.  Handle 1
\* starts from an empty Store, so each of its versions was made new, and
\* handle 2 holds a version only if it loaded after the payload was stored.
C7_AsStated ==
    /\ (/\ result.op = "add_version"
        /\ result.exc = ""
        /\ ValidFor(assets[result.h].val, result.contents))
       => contents(assets[result.h].val.versions[Len(assets[result.h].val.versions)])
            = result.contents
    /\ \A made \in Held(1), loaded \in Held(2) :
          (slot(made) = slot(loaded) /\ made.version = loaded.version)
          => contents(loaded) = contents(made)

-----------------------------------------------------------------------------
(* New versions without contents (under Spec)                              *)

\* Absent or empty contents: None or [].
NoContents == {None, Some(<<>>)}

\* C11, the constructor: for a loaded Asset and a version number the Store
\* holds no payload for, AssetVersion(asset, n, contents) with absent or
\* empty contents raises AssetVersionInitializationException.
C11_NewNeedsContents ==
    \A h \in Handles, n \in 1..(MaxLen + MaxVersion), c \in NoContents :
        (assets[h].some /\ ~get_version_data(assets[h].val.slot.slot_id, n).some)
        => AssetVersion(assets[h].val, n, c)
             = Raise("AssetVersionInitializationException")

\* C11, the step: add_version with absent or empty contents raises
\* AssetVersionInitializationException and leaves every Asset as it was.
C11_FailedAddChangesNothing ==
    (result'.op = "add_version" /\ result'.contents \in NoContents)
    => /\ result'.exc = "AssetVersionInitializationException"
       /\ assets' = assets

\* C11: creating a new AssetVersion, directly or through add_version, with
\* absent or empty contents fails with the initialization error, and the
\* failed add_version leaves versions() and latest_version() unchanged.
C11_EmptyContentsRejected ==
    []C11_NewNeedsContents /\ [][C11_FailedAddChangesNothing]_vars

\* C11 witness: add_version([]) failed on an Asset that holds versions.
C11_Witness ==
    /\ result.op = "add_version"
    /\ result.contents = Some(<<>>)
    /\ result.exc = "AssetVersionInitializationException"
    /\ assets[result.h].some
    /\ Len(assets[result.h].val.versions) >= 1
    /\ assets[result.h].val.latest_version >= 1

-----------------------------------------------------------------------------
(* Names (under SpecNames)                                                 *)

\* The components of a slot path: the strings between its "/" characters.
RECURSIVE SplitPath(_, _)
SplitPath(s, part) ==
    IF s = <<>> THEN <<part>>
    ELSE IF Head(s) = "/" THEN <<part>> \o SplitPath(Tail(s), <<>>)
    ELSE SplitPath(Tail(s), Append(part, Head(s)))

\* The components of a path that read <token>:<value>, and their values.
ComponentsFor(path, token) ==
    SelectSeq(SplitPath(path, <<>>),
              LAMBDA c : /\ Len(c) > Len(token)
                         /\ SubSeq(c, 1, Len(token) + 1) = token \o <<":">>)

ValueOf(component, token) == SubSeq(component, Len(token) + 2, Len(component))

\* The rule a generator goes by: the first in iteration order that matches
\* the whole path and declares tokens.
RuleFor(self) ==
    LET fit == {k \in DOMAIN self.name_rules :
                   /\ full_match(self.name_rules[k].regex, self.slot)
                   /\ self.name_rules[k].tokens # <<>>}
    IN IF fit = {} THEN None
       ELSE Some(self.name_rules[CHOOSE k \in fit : \A j \in fit : k <= j])

\* C12: when a rule fully matches the slot path and one of its declared
\* tokens has no <token>: component in the path, generate_name, and name()
\* of the Asset or AssetVersion, raise TokenNotFound to their caller.
C12_AsStated ==
    (/\ result.op \in {"generate_name", "name"}
     /\ RuleFor(named.val).some
     /\ \E k \in DOMAIN RuleFor(named.val).val.tokens :
           ComponentsFor(named.val.slot, RuleFor(named.val).val.tokens[k]) = <<>>)
    => result.ret = Raise("TokenNotFoundException")

\* The values of the components of the declared tokens, joined with "_".
RECURSIVE JoinedValues(_, _, _)
JoinedValues(path, tokens, k) ==
    LET value == ValueOf(ComponentsFor(path, tokens[k])[1], tokens[k])
    IN IF k = Len(tokens) THEN value
       ELSE value \o <<"_">> \o JoinedValues(path, tokens, k + 1)

\* C13: for a slot path fully matched by a rule, each of whose declared
\* tokens names one component of the path, generate_name returns the values
\* of those components in the declared token order, joined with "_".
C13_AsStated ==
    (/\ result.op = "generate_name"
     /\ RuleFor(named.val).some
     /\ \A k \in DOMAIN RuleFor(named.val).val.tokens :
           Len(ComponentsFor(named.val.slot, RuleFor(named.val).val.tokens[k])) = 1)
    => result.ret = Return(Some(JoinedValues(named.val.slot,
                                             RuleFor(named.val).val.tokens, 1)))

-----------------------------------------------------------------------------
(* Concurrent callers (under SpecRace)                                     *)

\* What one call of dependencies() on the shared AssetVersion, made alone
\* from the state in which it was loaded, returns.
Sequential ==
    dependencies([shared EXCEPT !.dependencies = <<>>,
                                !.dependencies_loaded = FALSE]).ret.val

\* No two entries of a list have the same (slot, version).
NoDuplicates(xs) ==
    \A i, j \in DOMAIN xs :
        (slot(xs[i]) = slot(xs[j]) /\ xs[i].version = xs[j].version) => i = j

\* C14: when every thread has returned from dependencies() on the shared
\* AssetVersion, whatever the interleaving, the list they all hold has the
\* entries a single call made alone would produce, and no duplicate
\* (slot, version) that such a call would not produce.
C14_AsStated ==
    (assets[1].some /\ \A t \in Threads : threads[t].pc = "done" /\ threads[t].exc = "")
    => /\ SameIdentities(shared.dependencies, Sequential)
       /\ NoDuplicates(Sequential) => NoDuplicates(shared.dependencies)

-----------------------------------------------------------------------------
(* Dependencies added by hand (under SpecAdd)                              *)

\* C15, the step: add_dependency(other) with an AssetVersion returns, and
\* leaves the list as it was when an entry has the (slot, version) of other,
\* else appends other at its end.
C15_InsertOnce ==
    (result'.op = "add_dependency")
    => LET before == assets[result'.h].val.versions[result'.i].dependencies
           after == assets'[result'.h].val.versions[result'.i].dependencies
       IN /\ result'.exc = ""
          /\ IF \E k \in DOMAIN before :
                   /\ slot(before[k]) = slot(result'.arg)
                   /\ before[k].version = result'.arg.version
             THEN after = before
             ELSE after = Append(before, result'.arg)

\* C15: add_dependency is an idempotent insert: it appends other at the end
\* of the dependency list iff no entry has the same (slot, version), so a
\* second call with the same or an equal AssetVersion changes nothing.
C15_AddDependencyIdempotent == [][C15_InsertOnce]_vars

\* C15 witness: add_dependency was called with another object of the
\* (slot, version) of an entry, and the list holds that identity once.
C15_Witness ==
    /\ result.op = "add_dependency"
    /\ LET deps == assets[result.h].val.versions[result.i].dependencies
       IN /\ \E k \in DOMAIN deps :
                /\ deps[k] # result.arg
                /\ slot(deps[k]) = slot(result.arg)
                /\ deps[k].version = result.arg.version
          /\ \A k \in DOMAIN deps : deps[k] # result.arg
          /\ NoDuplicates(deps)

\* The dependency lists of the AssetVersions a handle holds.
HeldDependencies(h) ==
    IF assets[h].some
    THEN {assets[h].val.versions[i].dependencies : i \in DOMAIN assets[h].val.versions}
    ELSE {}

\* C20: after any sequence of add_dependency and dependencies() calls on an
\* AssetVersion, its dependency list holds no two entries with the same
\* (slot, version).
C20_AsStated ==
    \A h \in Handles : \A deps \in HeldDependencies(h) : NoDuplicates(deps)

-----------------------------------------------------------------------------
(* Containers that also remove and load (under SpecContents)               *)

\* The entries of a container that an item matches by identity.
Matching(c, x) ==
    {k \in DOMAIN c.contents :
        ValidItem(c.type, x) /\ SameItem(c.type, c.contents[k], x)}

\* C16, the step: remove_content of an item that is valid for the kind
\* raises nothing; with an entry that matches the item by identity it
\* leaves the other entries, in order, and no entry that matches; with
\* none it changes nothing.
C16_RemoveStep ==
    (result'.op = "remove_content" /\ ValidItem(container.type, result'.arg))
    => /\ result'.exc = ""
       /\ container'.type = container.type
       /\ container'.contents =
            SelectSeq(container.contents,
                      LAMBDA e : ~SameItem(container.type, e, result'.arg))

\* C16: for both container kinds, remove_content(item) removes the entry
\* that matches item by identity when there is one, keeping every other
\* entry in order, and is a no-op without error when none matches.
C16_AsStated == [][C16_RemoveStep]_vars

\* C17, the step: add_content of an item that is valid for the kind and
\* matches no entry by identity appends it.
C17_AppendStep ==
    (/\ result'.op = "add_content"
     /\ ValidItem(container.type, result'.arg)
     /\ Matching(container, result'.arg) = {})
    => container'.contents = Append(container.contents, result'.arg)

\* C17: for both container kinds, add_content with a valid item that is not
\* present by identity appends it: the count grows by one and the item is
\* the last entry.
C17_AsStated == [][C17_AppendStep]_vars

\* C18: in every reachable state of a Container every entry is valid for
\* the kind and no two entries are equal by identity.
C18_AsStated ==
    /\ \A k \in DOMAIN container.contents :
          ValidItem(container.type, container.contents[k])
    /\ \A i, j \in DOMAIN container.contents :
          SameItem(container.type, container.contents[i], container.contents[j])
              => i = j

-----------------------------------------------------------------------------
(* Versions without a payload (under Spec)                                 *)

\* C19, the constructor: the AssetVersion made without contents carries no
\* contents or an empty list of them.
C19_LeftWithoutContents(made) ==
    /\ ~made.raised
    /\ contents(made.val) \in {None, Some(<<>>)}

\* C19: constructing an AssetVersion from history, that is without contents,
\* for a slot and version number the Store holds no payload for raises
\* nothing and leaves the AssetVersion with an absent or empty container.
C19_AsStated ==
    \A h \in Handles, n \in 1..(MaxLen + MaxVersion) :
        (assets[h].some /\ ~get_version_data(assets[h].val.slot.slot_id, n).some)
        => C19_LeftWithoutContents(AssetVersion(assets[h].val, n, None))

-----------------------------------------------------------------------------
(* Termination of dependencies() (under SpecResolve)                       *)

\* The AssetVersions a dependency list of a held version names were built
\* by _load_dependencies and nothing resolved their own dependencies.
Unresolved(av) == ~av.dependencies_loaded /\ av.dependencies = <<>>

\* C21, the expansion: at most two activations of dependencies() are open,
\* the inner one (the call made for the logged length) only tests the flag
\* and returns, and no resolved target has its own dependencies resolved.
C21_OneLevel ==
    /\ Len(stack) <= 2
    /\ \A d \in DOMAIN stack : d > 1 => stack[d].pc \in {"enter", "return"}
    /\ assets[1].some =>
          \A i \in DOMAIN assets[1].val.versions :
             \A k \in DOMAIN assets[1].val.versions[i].dependencies :
                Unresolved(assets[1].val.versions[i].dependencies[k])

\* C21, the call: an open call of dependencies() is closed in the end.
C21_CallReturns == (stack # <<>>) ~> (stack = <<>>)

\* C21: a call of dependencies() always terminates, also when the recorded
\* dependency pairs are cyclic, and its resolution is one level deep: the
\* targets' versions and contents are loaded, their own dependencies never.
C21_DependenciesTerminates == []C21_OneLevel /\ C21_CallReturns

\* C21 witness: dependencies() returned on version 1 of "A", which records
\* a dependency on itself and one on version 1 of "B", which depends back on
\* it, with an AssetVersion resolved for either pair.
C21_Witness ==
    /\ stack = <<>>
    /\ result.op = "dependencies"
    /\ result.i = 1
    /\ result.exc = ""
    /\ get_dependency_data("A", 1) = <<<<"A", 1>>, <<"B", 1>>>>
    /\ get_dependency_data("B", 1) = <<<<"A", 1>>>>
    /\ assets[1].val.versions[1].dependencies_loaded
    /\ Len(assets[1].val.versions[1].dependencies) = 2

====
